---- MODULE Spec2Model ----
(***************************************************************************)
(* GitScan (src/GitScan.py): one run of GitScan.run_scan.  The             *)
(* orchestrating thread paginates the repository list, fans one            *)
(* scan_single_repo task per repository out over a ThreadPoolExecutor,     *)
(* joins, and then performs the four account-level fetches and the report. *)
(* Remote responses are the inputs: every request draws its response from  *)
(* a small set.                                                            *)
(***************************************************************************)
EXTENDS Integers, Sequences, FiniteSets, TLC

(***************************************************************************)
(* Bounds of the model.                                                    *)
(***************************************************************************)
\* the largest number of repositories the remote account holds in a whole
\* run, and when get_all_repos is run alone
MaxRepos == 2
MaxListed == 5
\* the page size of the repository listing (per_page = 100 at
\* src/GitScan.py:74), scaled so that full, short and empty pages all occur
per_page == 2
\* the largest configured pool size (self.threads)
MaxThreads == 2
\* the longest commit list, search-hit list, event, organization and gist
\* list a response carries when the account holds at most one repository;
\* for larger accounts these lists hold at most one element
MaxCommits == 1
MaxHits == 2
MaxEntries == 2
\* the most rate-limited answers in a row the remote gives to the request
\* for one page of the listing
MaxSleeps == 2

(***************************************************************************)
(* Program constants.                                                      *)
(***************************************************************************)
CommitCap == 100
HitCap == 20
EventCap == 50
GistCap == 10

Min(a, b) == IF a < b THEN a ELSE b

\* no slice: the whole list
Prefix_All(s, n) == s

\* Python's s[:n]
Prefix(s, n) == SubSeq(s, 1, Min(Len(s), n))

(***************************************************************************)
(* Strings are sequences of one-character strings, so that split and       *)
(* lower are computed.  The empty sequence stands for None and for '':     *)
(* both are falsy where the code tests `if author_email`.                  *)
(***************************************************************************)
None == <<>>

alice_gmail == <<"a","l","i","c","e","@","g","m","a","i","l",".","c","o","m">>
bob_yahoo == <<"b","o","b","@","y","a","h","o","o",".","c","o","m">>
carol_megacorp ==
  <<"c","a","r","o","l","@","m","e","g","a","c","o","r","p",".","i","o">>

\* the addresses the remote data of the model mentions
Emails == {alice_gmail, bob_yahoo, carol_megacorp}

UpperToLower ==
  ("A" :> "a") @@ ("B" :> "b") @@ ("C" :> "c") @@ ("D" :> "d") @@ ("E" :> "e")
  @@ ("F" :> "f") @@ ("G" :> "g") @@ ("H" :> "h") @@ ("I" :> "i")
  @@ ("J" :> "j") @@ ("K" :> "k") @@ ("L" :> "l") @@ ("M" :> "m")
  @@ ("N" :> "n") @@ ("O" :> "o") @@ ("P" :> "p") @@ ("Q" :> "q")
  @@ ("R" :> "r") @@ ("S" :> "s") @@ ("T" :> "t") @@ ("U" :> "u")
  @@ ("V" :> "v") @@ ("W" :> "w") @@ ("X" :> "x") @@ ("Y" :> "y")
  @@ ("Z" :> "z")

\* str.lower()
lower(s) ==
  [i \in 1..Len(s) |->
     IF s[i] \in DOMAIN UpperToLower THEN UpperToLower[s[i]] ELSE s[i]]

\* split('@')[1]: the text after the first '@'
split_last_First(s) ==
  LET ats == {i \in 1..Len(s) : s[i] = "@"}
      first == IF ats = {} THEN 0 ELSE CHOOSE i \in ats : \A j \in ats : i <= j
  IN  SubSeq(s, first + 1, Len(s))

\* email.split('@')[-1]: the text after the last '@', the whole text when
\* there is none
split_last(s) ==
  LET ats == {i \in 1..Len(s) : s[i] = "@"}
      last == IF ats = {} THEN 0 ELSE CHOOSE i \in ats : \A j \in ats : j <= i
  IN  SubSeq(s, last + 1, Len(s))

\* an excerpt of the domain list of is_personal_email
corporate_domains ==
  { <<"g","m","a","i","l",".","c","o","m">>,
    <<"y","a","h","o","o",".","c","o","m">>,
    <<"o","u","t","l","o","o","k",".","c","o","m">>,
    <<"p","m",".","m","e">>,
    <<"g","m","x",".","d","e">> }

is_personal_email(email) == lower(split_last(email)) \in corporate_domains

(***************************************************************************)
(* Remote data and responses.                                              *)
(***************************************************************************)
\* a repository entry of the listing; complete = FALSE when a key that
\* scan_single_repo reads with repo[...] is missing
RepoEntry(i, c) == [name |-> i, complete |-> c]

RemoteAccounts(most) ==
  UNION { { [i \in 1..n |-> RepoEntry(i, c[i])] : c \in [1..n -> BOOLEAN] }
          : n \in 0..most }

\* a response: the request raised (timeout, connection error, bad JSON), or
\* it returned a status and, for 200, a body
Raised == [raised |-> TRUE, status_code |-> 0, json |-> <<>>]
Http(s, body) == [raised |-> FALSE, status_code |-> s, json |-> body]
FailStatuses == {403, 404, 429}
Failures == {Raised} \cup {Http(s, <<>>) : s \in FailStatuses}

SeqsUpTo(S, n) == UNION {[1..k -> S] : k \in 0..n}

VARIABLES
  pc,             \* where run_scan is
  calls,          \* the operations run_scan has invoked, in order
  remote,         \* the repositories of the remote account
  threads,        \* self.threads
  page,           \* get_all_repos: page
  sleeps,         \* get_all_repos: the time.sleep(60) calls for this page
  repos,          \* get_all_repos: repos, then run_scan: all_repos
  request,        \* the request the last step made and its outcome
  futures,        \* scan_repositories: the submitted tasks, by index
  collected,      \* the futures as_completed has yielded
  total_emails_found,
  completed_repos,
  lock,           \* self.lock: 0 when free, else the task holding it
  found_data,     \* self.found_data
  log,            \* the warnings and errors the last step printed
  email,          \* is_personal_email called on its own: the argument
  result          \* and how the call ended

vars == <<pc, calls, remote, threads, page, sleeps, repos, request, futures,
          collected, total_emails_found, completed_repos, lock, found_data,
          log, email, result>>

\* the longest list a response carries: long lists are explored for accounts
\* of at most one repository, many repositories with short lists
ListLen(most) == IF Len(remote) <= 1 THEN most ELSE 1

\* lists longer than the slice the code takes of them, for accounts of at
\* most one repository
LongLists(S) == IF Len(remote) <= 1 THEN S ELSE {}

\* a printed warning or error: repo is the repository the text names (0 when
\* it names none), nums the numbers and text the exception text it carries
LogEntry(level, msg, repo, nums, text) ==
  [level |-> level, msg |-> msg, repo |-> repo, nums |-> nums, text |-> text]

\* the request a step made: op the endpoint, repo the repository it is about
\* (0: the account), how it ended and, for the commit list and the code
\* search, the commits and the hits listed, and for the profile the profile
NoRequest ==
  [op |-> "none", repo |-> 0, raised |-> FALSE, status_code |-> 0,
   items |-> <<>>]
Req(op, repo, resp) ==
  [op |-> op, repo |-> repo, raised |-> resp.raised,
   status_code |-> resp.status_code,
   items |-> IF op \in {"commits", "search"} THEN resp.json
             ELSE IF op = "user" /\ ~resp.raised /\ resp.status_code = 200
                    THEN <<resp.json>>
                    ELSE <<>>]

\* how a call of is_personal_email ended: it raised, or returned a value
NoResult == [raised |-> FALSE, value |-> FALSE]

\* the state after GitScan(token, threads) was constructed, for an account
\* of at most `most` repositories, before the call of `first`
Constructed(most, first) ==
  /\ pc = first
  /\ calls = <<>>
  /\ remote \in RemoteAccounts(most)
  /\ threads \in 1..MaxThreads
  /\ page = 1
  /\ sleeps = 0
  /\ repos = <<>>
  /\ request = NoRequest
  /\ futures = <<>>
  /\ collected = {}
  /\ total_emails_found = 0
  /\ completed_repos = 0
  /\ lock = 0
  /\ found_data = [emails |-> {}, repos |-> <<>>, organizations |-> <<>>,
                   events |-> <<>>, gists |-> <<>>, user_info |-> <<>>]
  /\ log = {}

\* no call of is_personal_email on its own is under way
NotClassifying == email = None /\ result = NoResult

Init == Constructed(MaxRepos, "run_scan") /\ NotClassifying

(***************************************************************************)
(* run_scan and get_all_repos.                                             *)
(***************************************************************************)
RunScan ==
  /\ pc = "run_scan"
  /\ pc' = "get_all_repos"
  /\ calls' = Append(calls, "get_all_repos")
  /\ request' = NoRequest
  /\ log' = {}
  /\ UNCHANGED <<sleeps, email, result>>
  /\ UNCHANGED <<remote, threads, page, repos, futures, collected,
                 total_emails_found, completed_repos, lock, found_data>>

\* the page of the listing the remote returns for ?page=p&per_page=per_page
RemotePage(p) ==
  SubSeq(remote, (p - 1) * per_page + 1, Min(p * per_page, Len(remote)))

ListResponses(p) == Failures \cup {Http(200, RemotePage(p))}

\* the status the loop answers with sleep(60) and continue
IsRateLimit(status_code) == status_code = 403

\* off by one: a full page ends the loop too
LastPage_OffByOne(page_repos) == Len(page_repos) <= per_page

\* the page after which the loop breaks
LastPage(page_repos) == Len(page_repos) < per_page

\* an early return when nothing was listed
AfterGetAllRepos_EarlyReturn(all_repos) ==
  IF all_repos # <<>> THEN "scan_repositories" ELSE "done"

\* run_scan after get_all_repos returned: `if all_repos:` guards the fan-out
AfterGetAllRepos(all_repos) ==
  IF all_repos # <<>> THEN "scan_repositories" ELSE "get_user_info"

\* one iteration of the while loop of get_all_repos; when the loop breaks,
\* get_all_repos returns and run_scan goes on
GetAllRepos ==
  /\ pc = "get_all_repos"
  /\ \E resp \in ListResponses(page) :
       /\ IsRateLimit(resp.status_code) => sleeps < MaxSleeps
       /\ sleeps' = IF IsRateLimit(resp.status_code) THEN sleeps + 1 ELSE 0
       /\ request' = Req("repos", 0, resp)
       /\ IF resp.raised
            THEN /\ log' = {LogEntry("ERROR", "Exception on page", 0, <<page>>,
                                     "exception")}
                 /\ pc' = AfterGetAllRepos(repos)
                 /\ calls' = Append(calls, pc')
                 /\ UNCHANGED <<page, repos>>
          ELSE IF resp.status_code = 200
            THEN /\ repos' = repos \o resp.json
                 /\ IF resp.json = <<>> \/ LastPage(resp.json)
                      THEN /\ pc' = AfterGetAllRepos(repos')
                           /\ calls' = Append(calls, pc')
                           /\ page' = page
                      ELSE /\ page' = page + 1
                           /\ UNCHANGED <<pc, calls>>
                 /\ log' = {}
          ELSE IF IsRateLimit(resp.status_code)
            THEN /\ log' = {LogEntry("ERROR",
                                     "Rate limit exceeded. Waiting 60 seconds...",
                                     0, <<>>, "")}
                 /\ UNCHANGED <<pc, calls, page, repos>>
          ELSE /\ log' = {LogEntry("ERROR", "Error retrieving page", 0,
                                   <<page, resp.status_code>>, "")}
               /\ pc' = AfterGetAllRepos(repos)
               /\ calls' = Append(calls, pc')
               /\ UNCHANGED <<page, repos>>
  /\ UNCHANGED <<email, result>>
  /\ UNCHANGED <<remote, threads, futures, collected, total_emails_found,
                 completed_repos, lock, found_data>>

(***************************************************************************)
(* scan_repositories: the fan-out over the pool.                           *)
(***************************************************************************)
\* a task as submitted: executor.submit(self.scan_single_repo, (.., repo, ..));
\* commits_failed tells, until the task asks for the lock again, whether its
\* commit-list request raised or was not answered 200
NewFuture(repo) ==
  [st |-> "queued", repo |-> repo, commits_failed |-> FALSE,
   commits_emails |-> {}, all_emails |-> {}]

Tasks == 1..Len(futures)
Finished(t) == futures[t].st \in {"done", "raised"}
Running(t) == futures[t].st \notin {"queued", "done", "raised"}

\* the dict comprehension submits the tasks one after the other; workers
\* start the ones already submitted meanwhile
Submit ==
  /\ pc = "scan_repositories"
  /\ Len(futures) < Len(repos)
  /\ futures' = Append(futures, NewFuture(repos[Len(futures) + 1]))
  /\ pc' = IF Len(futures') = Len(repos) THEN "as_completed" ELSE pc
  /\ request' = NoRequest
  /\ log' = {}
  /\ UNCHANGED <<sleeps, email, result>>
  /\ UNCHANGED <<calls, remote, threads, page, repos, collected,
                 total_emails_found, completed_repos, lock, found_data>>

(***************************************************************************)
(* scan_single_repo, one task of the pool.                                 *)
(***************************************************************************)
\* the repo_info record built from the listing entry
RepoInfo(repo) == [name |-> repo.name]

\* str(KeyError(key)): the text of the exception a missing key raises
KeyErrorText == "'stargazers_count'"

\* a pool that starts a thread per submitted task
SlotFree_Unbounded == TRUE

\* the pool runs at most self.threads tasks at a time
SlotFree == Cardinality({u \in Tasks : Running(u)}) < threads

\* the pool's work queue is first in, first out
NextQueued(t) ==
  /\ futures[t].st = "queued"
  /\ \A u \in Tasks : u < t => futures[u].st # "queued"

\* a worker takes the task and builds repo_info from the entry; a missing
\* key raises out of the task before anything is appended
StartTask(t) ==
  /\ NextQueued(t)
  /\ SlotFree
  /\ futures' = [futures EXCEPT ![t].st =
                   IF futures[t].repo.complete THEN "lock1" ELSE "raised"]
  /\ request' = NoRequest
  /\ log' = {}
  /\ UNCHANGED <<sleeps, email, result>>
  /\ UNCHANGED <<pc, calls, remote, threads, page, repos, collected,
                 total_emails_found, completed_repos, lock, found_data>>

\* a lock that never blocks
LockFree_NoExclusion == TRUE

\* a semaphore that lets two tasks in
LockFree_Semaphore ==
  Cardinality({u \in Tasks : futures[u].st \in {"append", "update"}}) < 2

\* threading.Lock: acquire succeeds only while nobody holds the lock
LockFree == lock = 0

\* `with self.lock:` entered, lines 132 and 140
AcquireLock(t) ==
  /\ futures[t].st \in {"lock1", "lock2"}
  /\ LockFree
  /\ lock' = t
  /\ futures' = [futures EXCEPT
                   ![t].st = IF futures[t].st = "lock1" THEN "append"
                             ELSE "update",
                   ![t].commits_failed = FALSE]
  /\ request' = NoRequest
  /\ log' = {}
  /\ UNCHANGED <<sleeps, email, result>>
  /\ UNCHANGED <<pc, calls, remote, threads, page, repos, collected,
                 total_emails_found, completed_repos, found_data>>

\* a with block that keeps the lock over what follows it
Released_Never(t) == t

\* the lock when task t leaves its `with self.lock:` block
Released(t) == 0

\* self.found_data['repos'].append(repo_info) and the end of the with block
AppendRepo(t) ==
  /\ futures[t].st = "append"
  /\ found_data' = [found_data EXCEPT
                      !.repos = Append(@, RepoInfo(futures[t].repo))]
  /\ lock' = Released(t)
  /\ futures' = [futures EXCEPT ![t].st = "scan_repo_commits"]
  /\ request' = NoRequest
  /\ log' = {}
  /\ UNCHANGED <<sleeps, email, result>>
  /\ UNCHANGED <<pc, calls, remote, threads, page, repos, collected,
                 total_emails_found, completed_repos>>

\* a commit of the commit list: the author's and the committer's email
Commits ==
  { [author |-> alice_gmail, committer |-> alice_gmail],
    [author |-> carol_megacorp, committer |-> bob_yahoo],
    [author |-> carol_megacorp, committer |-> None] }

\* one commit more than commits[:100] takes, the last one by another author
LongCommits ==
  [i \in 1..(CommitCap + 1) |->
     IF i <= CommitCap
       THEN [author |-> alice_gmail, committer |-> alice_gmail]
       ELSE [author |-> carol_megacorp, committer |-> bob_yahoo]]

CommitResponses ==
  Failures
  \cup {Http(200, c) : c \in SeqsUpTo(Commits, ListLen(MaxCommits))}
  \cup {Http(200, c) : c \in LongLists({LongCommits})}

\* the addresses one commit adds to emails_found
CommitEmails(commit) ==
  {e \in {commit.author, commit.committer} :
     e # None /\ is_personal_email(e)}

\* the loop over commits[:100]
CommitsLoop(commits) ==
  UNION {CommitEmails(Prefix(commits, CommitCap)[i]) :
           i \in 1..Len(Prefix(commits, CommitCap))}

\* scan_repo_commits: what it returns for a response
scan_repo_commits(resp) ==
  IF ~resp.raised /\ resp.status_code = 200 THEN CommitsLoop(resp.json)
  ELSE {}

\* an exception of a sub-scan that leaves the task
AfterMiner_Propagate(raised, next) == IF raised THEN "raised" ELSE next

\* where the task is after a sub-scan: scan_repo_commits and scan_repo_code
\* end in `except Exception` and return emails_found either way
AfterMiner(raised, next) == next

ScanRepoCommits(t) ==
  /\ futures[t].st = "scan_repo_commits"
  /\ \E resp \in CommitResponses :
       /\ futures' = [futures EXCEPT
                        ![t].st = AfterMiner(resp.raised, "scan_repo_code"),
                        ![t].commits_failed =
                           resp.raised \/ resp.status_code # 200,
                        ![t].commits_emails = scan_repo_commits(resp)]
       /\ request' = Req("commits", futures[t].repo.name, resp)
       /\ log' = IF resp.raised
                   THEN {LogEntry("ERROR", "Error scanning commits in",
                                  futures[t].repo.name, <<>>, "exception")}
                   ELSE {}
  /\ UNCHANGED <<sleeps, email, result>>
  /\ UNCHANGED <<pc, calls, remote, threads, page, repos, collected,
                 total_emails_found, completed_repos, lock, found_data>>

\* a hit of the code search: html_url = FALSE when the key is missing; raw is
\* the response to the raw-file request, its body the addresses the pattern
\* finds in the text
RawRaised == [raised |-> TRUE, status_code |-> 0, json |-> {}]
RawResponses ==
  {RawRaised, Http(404, {})} \cup
  {Http(200, f) : f \in {{}, {bob_yahoo}, {alice_gmail, carol_megacorp}}}
Hits ==
  {[html_url |-> FALSE, raw |-> RawRaised]}
  \cup [html_url : {TRUE}, raw : RawResponses]

\* one hit more than items[:20] takes, the last one the only file with a
\* personal address
LongHits ==
  [i \in 1..(HitCap + 1) |->
     [html_url |-> TRUE,
      raw |-> Http(200, IF i <= HitCap THEN {} ELSE {bob_yahoo})]]

SearchResponses ==
  Failures
  \cup {Http(200, h) : h \in SeqsUpTo(Hits, ListLen(MaxHits))}
  \cup {Http(200, h) : h \in LongLists({LongHits})}

\* the loop over items[:20], from hit i on: the addresses found, and whether
\* item['html_url'] raised out of the loop
RECURSIVE HitsLoop(_, _, _)
HitsLoop(items, i, emails_found) ==
  IF i > Len(items) THEN [emails |-> emails_found, raised |-> FALSE]
  ELSE IF ~items[i].html_url THEN [emails |-> emails_found, raised |-> TRUE]
  ELSE IF ~items[i].raw.raised /\ items[i].raw.status_code = 200
    THEN HitsLoop(items, i + 1,
                  emails_found \cup
                    {e \in items[i].raw.json : is_personal_email(e)})
  ELSE HitsLoop(items, i + 1, emails_found)

\* scan_repo_code: the addresses it returns, and whether the outer handler
\* logged an exception
scan_repo_code(resp) ==
  IF resp.raised THEN [emails |-> {}, raised |-> TRUE]
  ELSE IF resp.status_code = 200
    THEN HitsLoop(Prefix(resp.json, HitCap), 1, {})
  ELSE [emails |-> {}, raised |-> FALSE]

\* the first task to merge wins
SetUpdate_KeepFirst(emails, all_emails) ==
  IF emails = {} THEN all_emails ELSE emails

\* assignment in place of update
SetUpdate_Overwrite(emails, all_emails) == all_emails

\* emails.update(all_emails)
SetUpdate(emails, all_emails) == emails \cup all_emails

\* the result of the commit scan alone
AllEmails_CommitsOnly(commits_emails, code_emails) == commits_emails

\* all_emails = commits_emails.union(code_emails)
AllEmails(commits_emails, code_emails) == commits_emails \cup code_emails

\* scan_repo_code and all_emails = commits_emails.union(code_emails)
ScanRepoCode(t) ==
  /\ futures[t].st = "scan_repo_code"
  /\ \E resp \in SearchResponses :
       LET code == scan_repo_code(resp) IN
       /\ futures' = [futures EXCEPT
                        ![t].st = AfterMiner(code.raised, "lock2"),
                        ![t].commits_emails = {},
                        ![t].all_emails =
                           AllEmails(futures[t].commits_emails, code.emails)]
       /\ request' = Req("search", futures[t].repo.name, resp)
       /\ log' = IF code.raised
                   THEN {LogEntry("ERROR", "Error scanning code in",
                                  futures[t].repo.name, <<>>, "exception")}
                   ELSE {}
  /\ UNCHANGED <<sleeps, email, result>>
  /\ UNCHANGED <<pc, calls, remote, threads, page, repos, collected,
                 total_emails_found, completed_repos, lock, found_data>>

\* self.found_data['emails'].update(all_emails), the end of the with block
\* and return len(all_emails)
UpdateEmails(t) ==
  /\ futures[t].st = "update"
  /\ found_data' = [found_data EXCEPT
                      !.emails = SetUpdate(@, futures[t].all_emails)]
  /\ lock' = Released(t)
  /\ futures' = [futures EXCEPT ![t].st = "done"]
  /\ request' = NoRequest
  /\ log' = {}
  /\ UNCHANGED <<sleeps, email, result>>
  /\ UNCHANGED <<pc, calls, remote, threads, page, repos, collected,
                 total_emails_found, completed_repos>>

\* a result that only tells whether the task found anything
FutureResult_Found(f) == IF f.all_emails = {} THEN 0 ELSE 1

\* future.result() of a task that returned
FutureResult(f) == Cardinality(f.all_emails)

\* the loop left at the first future that was yielded
AllYielded_First(yielded) == yielded # {}

\* the loop left when a yielded future had raised
AllYielded_StopOnFailure(yielded) ==
  \/ \A t \in Tasks : t \in yielded
  \/ \E t \in yielded : futures[t].st = "raised"

\* the as_completed loop and the with block end once every future was yielded
AllYielded(yielded) == \A t \in Tasks : t \in yielded

\* one iteration of `for future in as_completed(future_to_repo)`; after the
\* last one the executor is shut down and scan_repositories returns
AsCompleted ==
  /\ pc = "as_completed"
  /\ \E t \in Tasks \ collected :
       /\ Finished(t)
       /\ collected' = collected \cup {t}
       /\ IF futures[t].st = "done"
            THEN /\ total_emails_found' =
                      total_emails_found + FutureResult(futures[t])
                 /\ completed_repos' = completed_repos + 1
                 /\ log' = {}
            ELSE /\ log' = {LogEntry("ERROR", "Repository scan failed", 0, <<>>,
                                     KeyErrorText)}
                 /\ UNCHANGED <<total_emails_found, completed_repos>>
       /\ pc' = IF AllYielded(collected') THEN "get_user_info" ELSE pc
       /\ calls' = IF pc' = pc THEN calls ELSE Append(calls, pc')
  /\ request' = NoRequest
  /\ UNCHANGED <<sleeps, email, result>>
  /\ UNCHANGED <<remote, threads, page, repos, futures, lock, found_data>>

(***************************************************************************)
(* The account-level fetches and the report.                               *)
(***************************************************************************)
\* the profile: its public email is absent, a personal or a company address
UserResponses ==
  Failures \cup
  {Http(200, [login |-> "target", email |-> e]) :
     e \in {None, alice_gmail, carol_megacorp}}

\* an exception of the request that leaves run_scan
AfterFetch_Propagate(resp, next) == IF resp.raised THEN "done" ELSE next

\* where run_scan is after an account-level fetch returned: each fetch
\* returns to run_scan from its if, its else and its except branch alike
AfterFetch(resp, next) == next

\* a profile that keeps the fields of the old one the new one leaves empty
StoreProfile_Merge(old, user_data) ==
  IF old = None THEN user_data
  ELSE [user_data EXCEPT !.email = IF @ = None THEN old.email ELSE @]

\* self.found_data['user_info'] = user_data
StoreProfile(old, user_data) == user_data

GetUserInfo ==
  /\ pc = "get_user_info"
  /\ \E resp \in UserResponses :
       /\ pc' = AfterFetch(resp, "get_user_events")
       /\ request' = Req("user", 0, resp)
       /\ IF ~resp.raised /\ resp.status_code = 200
            THEN /\ found_data' =
                      [found_data EXCEPT
                         !.user_info = StoreProfile(@, resp.json),
                         !.emails = IF resp.json.email # None
                                      THEN @ \cup {resp.json.email} ELSE @]
                 /\ log' = {}
            ELSE /\ log' =
                      {IF resp.raised
                         THEN LogEntry("ERROR", "Error getting user info", 0,
                                       <<>>, "exception")
                         ELSE LogEntry("ERROR", "User not found", 0,
                                       <<resp.status_code>>, "")}
                 /\ UNCHANGED found_data
  /\ calls' = Append(calls, pc')
  /\ UNCHANGED <<sleeps, email, result>>
  /\ UNCHANGED <<remote, threads, page, repos, futures, collected,
                 total_emails_found, completed_repos, lock>>

\* the entries of an event, organization or gist listing; complete = FALSE
\* when a key the loop reads with entry[...] is missing
EntryLists ==
  UNION { { [i \in 1..n |-> [id |-> i, complete |-> c[i]]] :
              c \in [1..n -> BOOLEAN] } : n \in 0..ListLen(MaxEntries) }

\* one entry more than a slice of `cap` entries takes
LongEntries(cap) == [i \in 1..(cap + 1) |-> [id |-> i, complete |-> TRUE]]

EntryResponses ==
  Failures
  \cup {Http(200, l) : l \in EntryLists}
  \cup {Http(200, l) :
          l \in LongLists({LongEntries(EventCap), LongEntries(GistCap)})}

\* a loop that appends one record per entry, from entry i on: the list it
\* leaves, and whether a missing key raised out of it
RECURSIVE AppendLoop(_, _, _)
AppendLoop(entries, i, list) ==
  IF i > Len(entries) THEN [list |-> list, raised |-> FALSE]
  ELSE IF ~entries[i].complete THEN [list |-> list, raised |-> TRUE]
  ELSE AppendLoop(entries, i + 1, Append(list, [id |-> entries[i].id]))

\* get_user_events, get_user_organizations and get_user_gists share one
\* shape: field is the list appended to, entries the slice looped over
FetchList(op, resp, field, entries, errmsg, failmsg, faillevel) ==
  /\ request' = Req(op, 0, resp)
  /\ IF resp.raised
       THEN /\ log' = {LogEntry("ERROR", errmsg, 0, <<>>, "exception")}
            /\ UNCHANGED found_data
     ELSE IF resp.status_code = 200
       THEN LET r == AppendLoop(entries, 1, found_data[field])
            IN /\ found_data' = [found_data EXCEPT ![field] = r.list]
               /\ log' = IF r.raised
                           THEN {LogEntry("ERROR", errmsg, 0, <<>>, "exception")}
                           ELSE {}
     ELSE /\ log' = {LogEntry(faillevel, failmsg, 0, <<>>, "")}
          /\ UNCHANGED found_data

GetUserEvents ==
  /\ pc = "get_user_events"
  /\ \E resp \in EntryResponses :
       /\ pc' = AfterFetch(resp, "get_user_organizations")
       /\ FetchList("events", resp, "events", Prefix(resp.json, EventCap),
                    "Error getting events", "Failed to retrieve events",
                    "ERROR")
  /\ calls' = Append(calls, pc')
  /\ UNCHANGED <<sleeps, email, result>>
  /\ UNCHANGED <<remote, threads, page, repos, futures, collected,
                 total_emails_found, completed_repos, lock>>

GetUserOrganizations ==
  /\ pc = "get_user_organizations"
  /\ \E resp \in EntryResponses :
       /\ pc' = AfterFetch(resp, "get_user_gists")
       /\ FetchList("orgs", resp, "organizations", resp.json,
                    "Error getting organizations",
                    "Failed to retrieve organization information", "WARNING")
  /\ calls' = Append(calls, pc')
  /\ UNCHANGED <<sleeps, email, result>>
  /\ UNCHANGED <<remote, threads, page, repos, futures, collected,
                 total_emails_found, completed_repos, lock>>

GetUserGists ==
  /\ pc = "get_user_gists"
  /\ \E resp \in EntryResponses :
       /\ pc' = AfterFetch(resp, "generate_report")
       /\ FetchList("gists", resp, "gists", Prefix(resp.json, GistCap),
                    "Error getting gists", "Failed to retrieve gists",
                    "WARNING")
  /\ calls' = Append(calls, pc')
  /\ UNCHANGED <<sleeps, email, result>>
  /\ UNCHANGED <<remote, threads, page, repos, futures, collected,
                 total_emails_found, completed_repos, lock>>

\* generate_report reads the aggregate and prints; run_scan returns
GenerateReport ==
  /\ pc = "generate_report"
  /\ pc' = "done"
  /\ request' = NoRequest
  /\ log' = {}
  /\ UNCHANGED <<sleeps, email, result>>
  /\ UNCHANGED <<calls, remote, threads, page, repos, futures, collected,
                 total_emails_found, completed_repos, lock, found_data>>

\* a step of the pool thread running task t
TaskStep(t) ==
  \/ StartTask(t)
  \/ AcquireLock(t)
  \/ AppendRepo(t)
  \/ ScanRepoCommits(t)
  \/ ScanRepoCode(t)
  \/ UpdateEmails(t)

Worker == \E t \in Tasks : TaskStep(t)

Next ==
  \/ RunScan
  \/ GetAllRepos
  \/ Submit
  \/ Worker
  \/ AsCompleted
  \/ GetUserInfo
  \/ GetUserEvents
  \/ GetUserOrganizations
  \/ GetUserGists
  \/ GenerateReport

\* a whole run of run_scan
Spec == Init /\ [][Next]_vars

\* a whole run that does not stop while some thread can take a step: every
\* request returns or times out (timeout=30), and a rate-limited page is
\* answered otherwise after at most MaxSleeps retries
FairSpec == Init /\ [][Next]_vars /\ WF_vars(Next)

\* get_user_info called on its own, more than once: the caller keeps what the
\* call returned (user_data, or None after a failure) and calls it again
MaxFetches == 3

CallAgain ==
  /\ pc = "get_user_events"
  /\ Len(calls) < 2 * MaxFetches - 1
  /\ pc' = "get_user_info"
  /\ result' = [raised |-> FALSE,
                value |-> IF request.items = <<>> THEN None
                          ELSE request.items[1]]
  /\ calls' = Append(calls, pc')
  /\ UNCHANGED <<sleeps, email>>
  /\ UNCHANGED <<remote, threads, page, repos, request, futures, collected,
                 total_emails_found, completed_repos, lock, found_data, log>>

InitProfile == Constructed(0, "get_user_info") /\ NotClassifying
NextProfile == GetUserInfo \/ CallAgain
SpecProfile == InitProfile /\ [][NextProfile]_vars

\* get_all_repos run alone, against accounts of up to MaxListed repositories
InitPages == Constructed(MaxListed, "run_scan") /\ NotClassifying
NextPages == RunScan \/ GetAllRepos
SpecPages == InitPages /\ [][NextPages]_vars

(***************************************************************************)
(* is_personal_email called on its own, on addresses in every mix of upper *)
(* and lower case.                                                         *)
(***************************************************************************)
\* str.upper() of one character
upper_char(c) ==
  IF \E u \in DOMAIN UpperToLower : UpperToLower[u] = c
    THEN CHOOSE u \in DOMAIN UpperToLower : UpperToLower[u] = c
    ELSE c

\* the text s with any of its letters in upper case
CaseVariants(s) ==
  { [i \in 1..Len(s) |-> IF i \in U THEN upper_char(s[i]) ELSE s[i]] :
      U \in SUBSET (1..Len(s)) }

\* arguments of the call: a listed domain, an unlisted one, a listed domain
\* as a proper suffix, two '@', a listed domain before the '@', and texts
\* without '@'
BaseAddresses ==
  { <<"a","@","p","m",".","m","e">>,
    <<"a","@","p","m",".","m","x">>,
    <<"a","@","x","p","m",".","m","e">>,
    <<"a","@","b","@","p","m",".","m","e">>,
    <<"p","m",".","m","e","@","a">>,
    <<"p","m",".","m","e">>,
    <<"a","b","c">> }

Addresses == UNION {CaseVariants(b) : b \in BaseAddresses}

\* a call self.is_personal_email(email) and its return
IsPersonalEmail ==
  /\ pc = "is_personal_email"
  /\ result' = [raised |-> FALSE, value |-> is_personal_email(email)]
  /\ pc' = "returned"
  /\ UNCHANGED <<calls, remote, threads, page, repos, request, futures,
                 collected, total_emails_found, completed_repos, lock,
                 found_data, log, email, sleeps>>

InitClassifier ==
  /\ Constructed(0, "is_personal_email")
  /\ email \in Addresses
  /\ result = NoResult
NextClassifier == IsPersonalEmail
SpecClassifier == InitClassifier /\ [][NextClassifier]_vars

(***************************************************************************)
(* Properties.                                                             *)
(***************************************************************************)
AccountFetches ==
  {"get_user_info", "get_user_events", "get_user_organizations",
   "get_user_gists"}
AccountPhase == AccountFetches \cup {"generate_report", "done"}

\* the operations a finished run has invoked, in order
FullRun ==
  <<"get_all_repos">>
  \o (IF repos # <<>> THEN <<"scan_repositories">> ELSE <<>>)
  \o <<"get_user_info", "get_user_events", "get_user_organizations",
       "get_user_gists", "generate_report">>

\* the last request failed: it raised or its status was not 200
RequestFailed(r) == r.op # "none" /\ (r.raised \/ r.status_code # 200)
Throttled(r) == r.op # "none" /\ ~r.raised /\ r.status_code \in {403, 429}

\* C1: one task per repository is submitted, and every task has finished and
\* been yielded by as_completed before the first account-level fetch starts;
\* from then on no task is running and the lock is free.
C1_FanOutJoinsBeforeAccount ==
  /\ Len(futures) <= Len(repos)
  /\ \A t \in Tasks : futures[t].repo = repos[t]
  /\ pc \in {"as_completed"} \cup AccountPhase => Len(futures) = Len(repos)
  /\ pc \in AccountPhase =>
       /\ \A t \in Tasks : Finished(t) /\ t \in collected
       /\ lock = 0

C1_Witness ==
  /\ pc = "get_user_info"
  /\ Len(futures) = MaxRepos
  /\ \E t \in Tasks : futures[t].st = "raised"
  /\ \E t \in Tasks : futures[t].st = "done"

C3_State ==
  /\ \A t \in Tasks : futures[t].st = "raised" => ~futures[t].repo.complete
  /\ pc \in AccountPhase =>
       \A t \in Tasks :
         futures[t].repo.complete =>
           /\ futures[t].st = "done"
           /\ \E i \in 1..Len(found_data.repos) :
                found_data.repos[i] = RepoInfo(futures[t].repo)
           /\ futures[t].all_emails \subseteq found_data.emails
  /\ pc = "done" => calls = FullRun
  /\ pc # "done" => ENABLED Next

\* the step part of C3: as_completed yields a future that raised
C3_Caught ==
  \A t \in Tasks :
    t \notin collected /\ t \in collected' /\ futures[t].st = "raised" =>
      /\ pc' \in {"as_completed", "get_user_info"}
      /\ \E l \in log' : l.level = "ERROR" /\ l.msg = "Repository scan failed"
      /\ futures' = futures

\* C3: a task raises only for its own repository; the failure is handled
\* where as_completed yields it, with an error printed; the other tasks run
\* to their end, and once the fan-out is over the aggregate holds the record
\* and the merged addresses of every task that did not raise; the run goes
\* on through the account-level fetches and the report.
C3_FailuresIsolated == []C3_State /\ [][C3_Caught]_vars

C3_Witness ==
  /\ pc = "done"
  /\ \E t \in Tasks : futures[t].st = "raised"
  /\ \E t \in Tasks : futures[t].st = "done" /\ futures[t].all_emails # {}

\* C4 as stated: every request that fails is followed by a printed warning
\* or error, which names the repository when the request is about one; and
\* the error printed for a task that raised names the task's repository.
C4_EveryFailureLogged ==
  [][/\ RequestFailed(request') =>
          \E l \in log' :
            /\ l.level \in {"WARNING", "ERROR"}
            /\ request'.repo # 0 => l.repo = request'.repo
     /\ \A t \in Tasks :
          t \notin collected /\ t \in collected' /\ futures[t].st = "raised"
            => \E l \in log' : l.repo = futures[t].repo.name]_vars

\* C5: a task that has returned has all its addresses in the email set (no
\* update is lost), and when the fan-out is over the set is exactly the
\* union of what the tasks that returned had found.
C5_NoLostUpdate ==
  /\ \A t \in Tasks :
       futures[t].st = "done" => futures[t].all_emails \subseteq found_data.emails
  /\ pc = "get_user_info" =>
       found_data.emails =
         UNION {futures[t].all_emails : t \in {u \in Tasks : futures[u].st = "done"}}

C5_Witness ==
  /\ pc = "get_user_info"
  /\ threads > 1
  /\ \E t, u \in Tasks :
       /\ futures[t].st = "done" /\ futures[u].st = "done"
       /\ futures[t].all_emails = {alice_gmail}
       /\ futures[u].all_emails = {bob_yahoo}

\* C6 as stated: at the end of a run every address of the email set is a
\* personal address.
C6_OnlyPersonalEmails ==
  pc = "done" => \A e \in found_data.emails : is_personal_email(e)

\* the response to the repository-list request ends the loop: it raised, its
\* status is neither 200 nor 403, or its page is short or empty
EndsPagination(r, page_repos) ==
  \/ r.raised
  \/ r.status_code \notin {200, 403}
  \/ r.status_code = 200 /\ Len(page_repos) < per_page

\* C7 as stated: pagination stops exactly when a page comes back short or
\* empty, and in no other situation.
C7_StopsOnlyOnShortPage ==
  [][pc = "get_all_repos" =>
       (pc' # "get_all_repos" <=>
          /\ ~request'.raised
          /\ request'.status_code = 200
          /\ Len(RemotePage(page)) < per_page)]_vars

\* C7, amended: pagination stops exactly when a page comes back short or
\* empty, or the request raises, or its status is neither 200 nor 403; what
\* was accumulated is returned unchanged, with the entries of a short last
\* page added.
C7_StopsOnShortPageOrError ==
  [][pc = "get_all_repos" =>
       /\ pc' # "get_all_repos" <=> EndsPagination(request', RemotePage(page))
       /\ pc' # "get_all_repos" =>
            repos' = repos \o (IF ~request'.raised /\ request'.status_code = 200
                                 THEN RemotePage(page) ELSE <<>>)]_vars

C7_Witness ==
  /\ pc = "scan_repositories"
  /\ request.op = "repos"
  /\ request.status_code = 404
  /\ Len(repos) = per_page
  /\ Len(remote) > per_page

\* the step part of C8: the same page is requested again
C8_Retried ==
  pc = "get_all_repos" /\ Throttled(request') =>
    pc' = "get_all_repos" /\ page' = page /\ repos' = repos

\* C8 as stated: a rate-limited answer (403 or 429) to the request for page k
\* leaves the loop running on the same page with nothing appended, and when
\* no other failure ended the loop the list returned is the whole listing.
C8_RateLimitedPageRetried ==
  /\ [][C8_Retried]_vars
  /\ [](pc # "get_all_repos" /\ request.op = "repos"
          /\ (Throttled(request) \/ ~RequestFailed(request))
        => repos = remote)

\* C9 as stated: a request answered with 403 or 429 is repeated: whoever made
\* it is still at that request afterwards.
C9_ThrottlingRetried ==
  Throttled(request) =>
    CASE request.op = "repos" -> pc = "get_all_repos"
      [] request.op = "commits" ->
           futures[request.repo].st = "scan_repo_commits"
      [] request.op = "search" ->
           futures[request.repo].st = "scan_repo_code"
      [] request.op = "user" -> pc = "get_user_info"
      [] request.op = "events" -> pc = "get_user_events"
      [] request.op = "orgs" -> pc = "get_user_organizations"
      [] request.op = "gists" -> pc = "get_user_gists"

\* the step part of C10: the failing request is not repeated, and what was
\* accumulated is kept
C10_Ends ==
  pc = "get_all_repos" /\ request'.op = "repos"
    /\ (request'.raised \/ request'.status_code \notin {200, 403, 429}) =>
    /\ pc' = (IF repos # <<>> THEN "scan_repositories" ELSE "get_user_info")
    /\ repos' = repos

\* the state part of C10: a run never stops short of its end, and at its end
\* one task per accumulated repository has finished and the four fetches and
\* the report were invoked
C10_State ==
  /\ pc # "done" => ENABLED Next
  /\ pc = "done" =>
       /\ calls = FullRun
       /\ Len(futures) = Len(repos)
       /\ \A t \in Tasks : Finished(t) /\ futures[t].repo = repos[t]

\* C10: an error of the repository-list request that is not a rate limit
\* (it raised, or a status other than 200, 403, 429) ends pagination without
\* retry but not the run: the repositories accumulated so far are scanned,
\* and the four account-level fetches and the report are executed, also when
\* no repository was retrieved.
C10_PaginationErrorNotFatal == []C10_State /\ [][C10_Ends]_vars

C10_Witness ==
  /\ pc = "get_user_info"
  /\ request.op = "repos"
  /\ request.status_code = 404
  /\ repos = <<>>
  /\ remote # <<>>

\* C11: a task that has built its record always runs the commit scan and
\* then the code search, whatever the commit request answered; neither raises
\* out of the task (a task raises only before its first sub-scan), and the
\* task's result is the union of what the two returned.
C11_BothSubScansRun ==
  [][\A t \in Tasks :
       /\ futures'[t].st = "raised" => futures[t].st \in {"queued", "raised"}
       /\ futures[t].st = "scan_repo_commits" /\ futures'[t].st # futures[t].st
            => /\ futures'[t].st = "scan_repo_code"
               /\ request'.op = "commits" /\ request'.repo = futures[t].repo.name
               /\ futures'[t].commits_failed = RequestFailed(request')
       /\ futures[t].st = "scan_repo_code" /\ futures'[t].st # futures[t].st
            => /\ futures'[t].st = "lock2"
               /\ request'.op = "search" /\ request'.repo = futures[t].repo.name
               /\ futures'[t].all_emails =
                    futures[t].commits_emails
                      \cup scan_repo_code(
                             [raised |-> request'.raised,
                              status_code |-> request'.status_code,
                              json |-> request'.items]).emails
       /\ futures[t].st = "update" /\ futures'[t].st = "done"
            => futures[t].all_emails \subseteq found_data'.emails]_vars

C11_Witness ==
  \E t \in Tasks :
    /\ futures[t].st = "lock2"
    /\ futures[t].commits_failed
    /\ futures[t].all_emails # {}
    /\ request.op = "search" /\ request.repo = futures[t].repo.name

HasAt(s) == \E i \in 1..Len(s) : s[i] = "@"

\* d is the text s from position k + 1 on, in lower case
LowerSuffix(s, k, d) ==
  /\ Len(d) = Len(s) - k
  /\ \A i \in 1..Len(d) :
       d[i] = (IF s[k + i] \in DOMAIN UpperToLower
                 THEN UpperToLower[s[k + i]] ELSE s[k + i])

\* C12: for an address with an '@', the classifier returns true exactly when
\* the text after the last '@', in lower case, is an entry of the domain
\* list, and it returns the same for the address in any other mix of upper
\* and lower case.
C12_ClassifiedByLowerDomain ==
  pc = "returned" /\ HasAt(email) =>
    /\ ~result.raised
    /\ result.value <=>
         \E d \in corporate_domains, k \in 1..Len(email) :
           /\ email[k] = "@"
           /\ \A j \in (k + 1)..Len(email) : email[j] # "@"
           /\ LowerSuffix(email, k, d)
    /\ \A v \in CaseVariants(email) : is_personal_email(v) = result.value

C12_Witness ==
  /\ pc = "returned"
  /\ email = <<"A","@","b","@","P","m",".","M","E">>
  /\ result.value

\* C13 as stated: a call on a text without '@' raises.
C13_NoAtRaises ==
  pc = "returned" /\ ~HasAt(email) => result.raised

\* the state part of C14: the lock is held only inside one of the two with
\* blocks, whose single statement can always be executed; a task about to
\* make a request does not hold it
C14_State ==
  \A t \in Tasks :
    /\ lock = t =>
         /\ futures[t].st \in {"append", "update"}
         /\ ENABLED (AppendRepo(t) \/ UpdateEmails(t))
    /\ futures[t].st \in {"scan_repo_commits", "scan_repo_code"} => lock # t

\* the step part of C14: the step of the task holding the lock makes no
\* request, changes exactly one container of the aggregate (one record
\* appended to the repository list, or one union into the email set) and
\* releases the lock; a request made meanwhile is made by another task
C14_Step ==
  \A t \in Tasks :
    lock = t =>
      /\ futures'[t] # futures[t] =>
           /\ request'.op = "none"
           /\ lock' = 0
           /\ \/ /\ futures[t].st = "append"
                 /\ found_data' =
                      [found_data EXCEPT
                         !.repos = Append(@, RepoInfo(futures[t].repo))]
              \/ /\ futures[t].st = "update"
                 /\ found_data' =
                      [found_data EXCEPT
                         !.emails = @ \cup futures[t].all_emails]
      /\ request'.op # "none" =>
           /\ futures'[t] = futures[t]
           /\ request'.repo # futures[t].repo.name

\* C14: no with block of the lock spans a request: the task holding the lock
\* makes exactly one container mutation and no request before it releases
\* the lock, so a task waiting for a response never holds the lock.
C14_LockNeverSpansRequest == []C14_State /\ [][C14_Step]_vars

C14_Witness ==
  \E t, u \in Tasks :
    /\ lock = t
    /\ futures[t].st = "update"
    /\ futures[u].st = "scan_repo_code"
    /\ request.op = "commits"
    /\ request.repo = futures[u].repo.name

\* C15: never more than self.threads tasks are executing; a task is started
\* only when fewer than that are, the others stay queued meanwhile, and
\* every queued task is eventually started.
C15_PoolBounded ==
  /\ [](Cardinality({t \in Tasks : Running(t)}) <= threads)
  /\ [][\A t \in Tasks :
          futures[t].st = "queued" /\ futures'[t].st # "queued" =>
            Cardinality({u \in Tasks : Running(u)}) < threads]_vars
  /\ \A t \in 1..MaxRepos :
       (t \in Tasks /\ futures[t].st = "queued")
         ~> (t \in Tasks /\ futures[t].st # "queued")

C15_Witness ==
  /\ Cardinality({t \in Tasks : Running(t)}) = threads
  /\ \E t \in Tasks : futures[t].st = "queued"
  /\ pc = "as_completed"

\* the tasks whose repository entry lets scan_single_repo build its record
Scanned == {t \in Tasks : futures[t].repo.complete}

\* C16: when the fan-out is over, the email set and the records of the
\* repository list are determined by the repositories and by what each task
\* found, whatever the order in which the tasks ran: the set is the union
\* of the tasks' results, and the list holds exactly one record per scanned
\* repository, in any order.
C16_OrderIndependent ==
  pc = "get_user_info" =>
    /\ found_data.emails = UNION {futures[t].all_emails : t \in Scanned}
    /\ Len(found_data.repos) = Cardinality(Scanned)
    /\ \A t \in Scanned :
         Cardinality({i \in 1..Len(found_data.repos) :
                        found_data.repos[i] = RepoInfo(futures[t].repo)}) = 1
    /\ total_emails_found =
         Cardinality(UNION {{<<t, e>> : e \in futures[t].all_emails} :
                              t \in Scanned})

C16_Witness ==
  /\ pc = "get_user_info"
  /\ Len(found_data.repos) = 2
  /\ found_data.repos[1] = RepoInfo(repos[2])
  /\ found_data.repos[2] = RepoInfo(repos[1])
  /\ futures[1].all_emails = {alice_gmail}
  /\ futures[2].all_emails = {bob_yahoo}

\* the fetch run_scan is at, the request it makes and the call that follows
FetchOrder ==
  [get_user_info |-> <<"user", "get_user_events">>,
   get_user_events |-> <<"events", "get_user_organizations">>,
   get_user_organizations |-> <<"orgs", "get_user_gists">>,
   get_user_gists |-> <<"gists", "generate_report">>]

\* the step part of C17: a fetch makes its one request while no task is
\* running and, whatever the outcome, run_scan goes on to the next call
C17_Step ==
  pc \in AccountFetches =>
    /\ request'.op = FetchOrder[pc][1]
    /\ pc' = FetchOrder[pc][2]
    /\ futures' = futures
    /\ \A t \in Tasks : Finished(t)

\* C17: the four account-level fetches are made in the order profile,
\* events, organizations, gists by the thread that called run_scan, after
\* the pool is done; whether a fetch succeeds or fails, the next one is made,
\* and a run that has started them reaches the report and its end.
C17_FetchesTolerateFailure ==
  /\ [][C17_Step]_vars
  /\ [](pc \in {"generate_report", "done"} =>
         /\ Len(calls) >= 5
         /\ SubSeq(calls, Len(calls) - 4, Len(calls)) =
              <<"get_user_info", "get_user_events", "get_user_organizations",
                "get_user_gists", "generate_report">>)
  /\ (pc \in AccountFetches) ~> (pc = "done")

C17_Witness ==
  /\ pc = "generate_report"
  /\ found_data.user_info = <<>>
  /\ found_data.events = <<>>
  /\ found_data.gists # <<>>
  /\ request.op = "gists"

\* C18 as stated: a rate-limited answer (403 or 429) to the repository-list
\* request never ends pagination, however many came before it, and a run
\* whose requests are eventually answered otherwise reaches its end.
C18_UnboundedRetryTerminates ==
  /\ [][pc = "get_all_repos" /\ Throttled(request')
          => pc' = "get_all_repos" /\ sleeps' = sleeps + 1]_vars
  /\ <>(pc = "done")

\* the personal addresses in the files of the hits that could be fetched
FoundInHits(items) ==
  UNION { {e \in items[i].raw.json : is_personal_email(e)} :
            i \in {j \in 1..Len(items) :
                     /\ items[j].html_url
                     /\ ~items[j].raw.raised
                     /\ items[j].raw.status_code = 200} }

\* C19 as stated: when the code search answers 200, a hit that fails (no
\* URL, the raw request raising or not answering 200) is skipped and every
\* other of the first 20 hits is handled: the sub-scan returns all the
\* personal addresses found in the hits that did not fail.
C19_FailingHitSkipped ==
  [][\A t \in Tasks :
       /\ futures[t].st = "scan_repo_code"
       /\ futures'[t].st = "lock2"
       /\ ~request'.raised /\ request'.status_code = 200
       => futures'[t].all_emails =
            futures[t].commits_emails
              \cup FoundInHits(Prefix(request'.items, HitCap))]_vars

\* C20 as stated: an account-level fetch whose request raises or is not
\* answered 200, or that ends in its exception handler, leaves the whole
\* aggregate as it was.
C20_FailedFetchChangesNothing ==
  [][(/\ pc \in AccountFetches
      /\ \/ RequestFailed(request')
         \/ \E l \in log' : l.text = "exception")
     => found_data' = found_data]_vars

\* the first n elements of s, all of s when it is shorter
FirstN(s, n) == [i \in 1..(IF Len(s) < n THEN Len(s) ELSE n) |-> s[i]]

\* the state part of C21: the event list holds at most 50 and the gist list
\* at most 10 entries, the entries of the response from the first on
C21_State ==
  /\ Len(found_data.events) <= 50
  /\ Len(found_data.gists) <= 10
  /\ \A i \in 1..Len(found_data.events) : found_data.events[i].id = i
  /\ \A i \in 1..Len(found_data.gists) : found_data.gists[i].id = i

\* the step part of C21: what the commit scan returns is what the first 100
\* commits give, and what the code search adds is found in the first 20 hits
C21_Step ==
  \A t \in Tasks :
    /\ futures[t].st = "scan_repo_commits" /\ futures'[t].st = "scan_repo_code"
        /\ ~request'.raised /\ request'.status_code = 200
        => futures'[t].commits_emails =
             UNION {CommitEmails(c) :
                      c \in {FirstN(request'.items, 100)[i] :
                               i \in 1..Len(FirstN(request'.items, 100))}}
    /\ futures[t].st = "scan_repo_code" /\ futures'[t].st = "lock2"
        => futures'[t].all_emails \subseteq
             futures[t].commits_emails
               \cup FoundInHits(FirstN(request'.items, 20))

\* C21: the event list never holds more than 50 and the gist list never
\* more than 10 entries, each the first entries of the response in order;
\* the commit scan looks at the first 100 commits only and the code search
\* at the first 20 hits only.
C21_CapsRespected == []C21_State /\ [][C21_Step]_vars

C21_Witness ==
  /\ pc = "done"
  /\ Len(found_data.events) = 50
  /\ Len(found_data.organizations) = 51
  /\ Len(found_data.gists) = 10
  /\ Len(futures) = 1
  /\ futures[1].all_emails = {alice_gmail}

\* a call of get_user_info that was answered with a profile
ProfileFetched ==
  /\ pc = "get_user_info" /\ pc' = "get_user_events"
  /\ request'.op = "user" /\ ~RequestFailed(request')

\* C22: a successful get_user_info leaves the response as the profile
\* snapshot, whatever the snapshot was, and when the call before it returned
\* the same profile the whole aggregate store is what it was after that call.
C22_ProfileIdempotent ==
  [][ProfileFetched =>
       /\ found_data'.user_info = request'.items[1]
       /\ (request.op = "user" /\ result.value = request'.items[1])
            => found_data' = found_data]_vars

C22_Witness ==
  /\ pc = "get_user_events"
  /\ Len(calls) = 3
  /\ request.op = "user" /\ ~RequestFailed(request)
  /\ result.value = request.items[1]
  /\ found_data.user_info.email = alice_gmail
  /\ found_data.emails = {alice_gmail}

\* the task has appended its record
Appended(t) ==
  futures[t].st \in
    {"scan_repo_commits", "scan_repo_code", "lock2", "update", "done"}

\* the positions of the repository list that hold the record of task t
RecordsOf(t) ==
  {i \in 1..Len(found_data.repos) :
     found_data.repos[i] = RepoInfo(futures[t].repo)}

\* the public address of the profile, when one was fetched
ProfileEmail ==
  IF found_data.user_info # None /\ found_data.user_info.email # None
    THEN {found_data.user_info.email} ELSE {}

\* the state part of C23: the repository list holds one record for each task
\* past its append and none for any other task, the tasks past the append at
\* the join are the ones that returned, and every address the tasks merged
\* belongs to a task whose record is in the list
C23_State ==
  /\ \A t \in Tasks :
       Cardinality(RecordsOf(t)) = IF Appended(t) THEN 1 ELSE 0
  /\ Len(found_data.repos) = Cardinality({t \in Tasks : Appended(t)})
  /\ pc \in AccountPhase =>
       \A t \in Tasks :
         /\ futures[t].st = "done" => Cardinality(RecordsOf(t)) = 1
         /\ futures[t].st = "raised" => RecordsOf(t) = {}
  /\ found_data.emails \subseteq
       ProfileEmail
         \cup UNION {futures[t].all_emails :
                       t \in {u \in Tasks : RecordsOf(u) # {}}}

\* the step part of C23: a task past its append stays past it, so it does not
\* raise, and a step that merges a task's addresses finds its record there
C23_Step ==
  \A t \in Tasks :
    /\ Appended(t) => Appended(t)'
    /\ futures[t].st = "update" /\ futures'[t].st = "done"
         => RecordsOf(t) # {}

\* C23: in each task the append of the repository record comes before the
\* merge of the addresses and a task that appended never raises: the list
\* holds exactly one record per task that returned and none for a task that
\* raised, and no address is in the email set without its repository's
\* record.
C23_RecordBeforeEmails == []C23_State /\ [][C23_Step]_vars

C23_Witness ==
  /\ pc = "get_user_info"
  /\ Len(futures) = 2
  /\ futures[1].st = "raised"
  /\ futures[2].st = "done"
  /\ futures[2].all_emails = {bob_yahoo}
  /\ found_data.repos = <<RepoInfo(repos[2])>>
  /\ found_data.emails = {bob_yahoo}

\* task t is inside one of its two with blocks
InSection(t) == futures[t].st \in {"append", "update"}

\* task t is blocked in the acquire of one of its two with blocks
Waiting(t) == futures[t].st \in {"lock1", "lock2"}

\* the state part of C24: at most one task is inside a with block, and it is
\* the one recorded as the holder of the lock
C24_State ==
  /\ Cardinality({t \in Tasks : InSection(t)}) <= 1
  /\ \A t \in Tasks : InSection(t) <=> lock = t

\* the step part of C24: the step that takes a task out of a with block
\* frees the lock, and the lock changes hands only through being free
C24_Step ==
  /\ \A t \in Tasks : InSection(t) /\ ~InSection(t)' => lock' = 0
  /\ lock # 0 /\ lock' # lock => lock' = 0

\* C24: the lock gives mutual exclusion without deadlock: at most one task
\* is inside a with block at a time, leaving a with block releases the lock,
\* every task waiting for the lock comes to hold it, and every task a worker
\* has started finishes.
C24_LockExclusiveAndLive ==
  /\ []C24_State
  /\ [][C24_Step]_vars
  /\ \A t \in 1..MaxRepos :
       /\ (t \in Tasks /\ Waiting(t)) ~> (t \in Tasks /\ lock = t)
       /\ (t \in Tasks /\ futures[t].st # "queued")
            ~> (t \in Tasks /\ Finished(t))

C24_Witness ==
  /\ Len(futures) = 2
  /\ lock = 1
  /\ futures[1].st = "update"
  /\ futures[2].st = "lock1"

\* the tasks as_completed has yielded that returned a result
Returned == {t \in collected : futures[t].st = "done"}

\* the sum of the sizes of the result sets of the tasks in S
RECURSIVE SumOfSizes(_)
SumOfSizes(S) ==
  IF S = {} THEN 0
  ELSE LET t == CHOOSE u \in S : TRUE
       IN Cardinality(futures[t].all_emails) + SumOfSizes(S \ {t})

\* the distinct addresses the tasks that returned have merged
MergedByReturned == UNION {futures[t].all_emails : t \in Returned}

\* C25: the running total is the sum of the sizes of the result sets of the
\* tasks that returned, and the progress counter is their number; the total
\* is at least the number of distinct addresses those tasks merged into the
\* email set, and greater when two of them found the same address. At the
\* join the tasks counted are all the tasks that returned.
C25_TotalIsSumOfResults ==
  /\ total_emails_found = SumOfSizes(Returned)
  /\ completed_repos = Cardinality(Returned)
  /\ MergedByReturned \subseteq found_data.emails
  /\ total_emails_found >= Cardinality(MergedByReturned)
  /\ (\E t, u \in Returned :
        t # u /\ futures[t].all_emails \cap futures[u].all_emails # {})
       => total_emails_found > Cardinality(MergedByReturned)
  /\ pc \in AccountPhase =>
       Returned = {t \in Tasks : futures[t].st = "done"}

C25_Witness ==
  /\ pc = "get_user_info"
  /\ Len(futures) = 2
  /\ futures[1].all_emails = {alice_gmail}
  /\ futures[2].all_emails = {alice_gmail}
  /\ Returned = {1, 2}
  /\ total_emails_found = 2
  /\ completed_repos = 2
  /\ found_data.emails = {alice_gmail}

====
